---- MODULE Spec2Model ----
(***************************************************************************)
(* Model of corpnet_irs/ein_automation_final.py: the IRS EIN form wizard   *)
(* (IRSEINAutomation.run_automation and its helpers), the in-memory        *)
(* SessionManager, and the FastAPI handlers /run-irs-ein and               *)
(* /submit-decision together with the deferred _timeout_session task.      *)
(*                                                                         *)
(* Scheduling: the handlers are coroutines on one asyncio loop.  A handler *)
(* runs without interruption between two awaits that really suspend.       *)
(* run_automation contains no await, so a /run-irs-ein request runs from   *)
(* its authorization check up to `await _send_completion_notification`     *)
(* as one step (RunRequest) and from there to its response as a second     *)
(* step (RunNotified).  /submit-decision has no await at all.              *)
(***************************************************************************)
EXTENDS Integers, Sequences, FiniteSets, TLC

VARIABLES
    sessions,   \* SessionManager.sessions: record id -> automation object
    autos,      \* per IRSEINAutomation object: its driver and the quit() calls made on it
    numAutos,   \* IRSEINAutomation objects constructed so far
    awaiting,   \* /run-irs-ein requests suspended in `await _send_completion_notification`
    timeouts,   \* pending _timeout_session tasks, in the order they were created, each
                \* with the run that created it and the automations constructed by then
    reqs,       \* HTTP requests received so far
    lastReq,    \* the request received last
    lastRun,    \* what the last call of run_automation did and returned
    resp,       \* the HTTP response sent last
    lastEvict,  \* the last call of remove_session and what it did
    clock,      \* seconds by which time.time() has advanced
    files,      \* the files in STATIC_DIR, each with the record id it was captured for
    lastHook,   \* the webhook POST made last and how it ended
    fn          \* input and output of a helper function applied on its own

vars == <<sessions, autos, numAutos, awaiting, timeouts, reqs, lastReq,
          lastRun, resp, lastEvict, clock, files, lastHook, fn>>

\* the state of the server, which a helper function applied on its own leaves alone
serverVars == <<sessions, autos, numAutos, awaiting, timeouts, reqs, lastReq,
                lastRun, resp, lastEvict, clock, files, lastHook>>

(***************************************************************************)
(* Bounds                                                                  *)
(***************************************************************************)
MaxRequests == 3    \* HTTP requests in one behaviour
MaxKeyLen == 3      \* atoms in a key of a json_summary document
MaxDepth == 2       \* containers wrapped around the innermost dict of a document
MaxClock == 1       \* seconds that pass in one behaviour
MaxPad == 1         \* white space characters on one side of a form value
MaxStateLen == 3    \* characters of an arbitrary state string
MaxPhoneDigits == 11    \* digits of a phone number
MaxRetries == 2     \* the greatest retries argument of click_button
MaxFillLen == 3     \* characters of the value argument of fill_field

(***************************************************************************)
(* Values                                                                  *)
(***************************************************************************)
None == "<None>"                    \* Python's None
API_KEY == "tX9vL2kQwRtY7uJmK3vL8nWcXe5HgH3v"   \* default of CONFIG['API_KEY']
TEMP_RECORD_ID == "temp_record_id"  \* the record id map_form_automation_data assigns
AutoIds == 1..MaxRequests

(***************************************************************************)
(* Strings that the code takes apart are sequences of atoms: an atom is    *)
(* one character, or the 18 characters "responsible party-" in one letter  *)
(* case (MARK, MARK_TITLE, MARK_UPPER).  Other strings are TLA+ strings.   *)
(***************************************************************************)
MARK == "responsible party-"
MARK_TITLE == "Responsible Party-"
MARK_UPPER == "RESPONSIBLE PARTY-"
KeyAtoms == {MARK, MARK_TITLE, MARK_UPPER, " ", "x", "0", "1", "9"}

\* str.lower() on one atom
LowerAtom(c) ==
    CASE c \in {MARK_TITLE, MARK_UPPER} -> MARK
      [] c = "X" -> "x"
      [] OTHER -> c

\* str.lower()
Lower(s) == [i \in 1..Len(s) |-> LowerAtom(s[i])]

\* `"responsible party-" in s`
ContainsMark(s) == \E i \in 1..Len(s) : s[i] = MARK

\* s.split("responsible party-")[-1]: what follows the last occurrence
AfterLastMark(s) ==
    LET last == CHOOSE i \in 1..Len(s) :
                    s[i] = MARK /\ \A j \in (i+1)..Len(s) : s[j] # MARK
    IN  SubSeq(s, last + 1, Len(s))

\* s.split(): the words of s between runs of whitespace
RECURSIVE SplitWords(_)
SplitWords(s) ==
    IF s = <<>> THEN <<>>
    ELSE IF Head(s) = " " THEN SplitWords(Tail(s))
    ELSE LET stops == {i \in 1..Len(s) : s[i] = " "}
             n == IF stops = {} THEN Len(s)
                  ELSE (CHOOSE i \in stops : \A j \in stops : i <= j) - 1
         IN  <<SubSeq(s, 1, n)>> \o SplitWords(SubSeq(s, n + 1, Len(s)))

DigitValue(c) == CASE c = "0" -> 0 [] c = "1" -> 1 [] c = "2" -> 2
                   [] c = "3" -> 3 [] c = "4" -> 4 [] c = "5" -> 5
                   [] c = "6" -> 6 [] c = "7" -> 7 [] c = "8" -> 8
                   [] c = "9" -> 9

AllDigits == {"0", "1", "2", "3", "4", "5", "6", "7", "8", "9"}

\* int(w) for a word of the atoms above: its decimal value, or ValueError
RECURSIVE DecimalValue(_)
DecimalValue(w) ==
    IF w = <<>> THEN 0
    ELSE 10 * DecimalValue(SubSeq(w, 1, Len(w) - 1)) + DigitValue(w[Len(w)])

PyInt(w) ==
    IF w # <<>> /\ \A i \in 1..Len(w) : w[i] \in AllDigits
    THEN [ok |-> TRUE, value |-> DecimalValue(w)]
    ELSE [ok |-> FALSE, value |-> 0]

SetMax(S) == CHOOSE m \in S : \A x \in S : x <= m

(***************************************************************************)
(* A JSON document is a tree: [t |-> "dict", items |-> <<[k, v], ..>>]     *)
(* with distinct keys k in insertion order, [t |-> "list", items |-> ..],  *)
(* or the scalar [t |-> "scalar"].                                         *)
(***************************************************************************)
Scalar == [t |-> "scalar"]
JsonNone == [t |-> "none"]          \* None where a document is expected
Dict(items) == [t |-> "dict", items |-> items]
List(items) == [t |-> "list", items |-> items]

\* search_parties: the words collected in responsible_parties, and whether
\* the walk raised (IndexError of `.split()[0]` on a key that ends after
\* the marker or has only whitespace after it)
RECURSIVE search_parties(_)
search_parties(data) ==
    LET nothing == [raised |-> FALSE, parties |-> {}]
        key(k) ==
            LET kl == Lower(k)
            IN  IF ContainsMark(kl)
                THEN LET ws == SplitWords(AfterLastMark(kl))
                     IN  IF ws = << >> THEN [raised |-> TRUE, parties |-> {}]
                         ELSE [raised |-> FALSE, parties |-> {ws[1]}]
                ELSE nothing
        merge(visits) ==
            [raised |-> \E i \in DOMAIN visits : visits[i].raised,
             parties |-> UNION {visits[i].parties : i \in DOMAIN visits}]
    IN  IF data.t = "dict" THEN
            merge([i \in 1..Len(data.items) |->
                     merge(<< key(data.items[i].k),
                              IF data.items[i].v.t \in {"dict", "list"}
                              THEN search_parties(data.items[i].v)
                              ELSE nothing >>)])
        ELSE IF data.t = "list" THEN
            merge([i \in 1..Len(data.items) |-> search_parties(data.items[i])])
        ELSE nothing

\* u <= v in the order of str on words of digits
RECURSIVE LexLeq(_, _)
LexLeq(u, v) ==
    IF u = << >> THEN TRUE
    ELSE IF v = << >> THEN FALSE
    ELSE IF Head(u) = Head(v) THEN LexLeq(Tail(u), Tail(v))
    ELSE DigitValue(Head(u)) < DigitValue(Head(v))

\* A variant of the maximum that compares the words as text:
\* int(max(responsible_parties))
MaxParty_text(parties) ==
    PyInt(CHOOSE w \in parties : \A x \in parties : LexLeq(x, w)).value

\* the `max(int(num) ...)` of determine_llc_members: numeric maximum
MaxParty(parties) == SetMax({PyInt(w).value : w \in parties})

\* IRSEINAutomation.determine_llc_members
determine_llc_members(json_summary) ==
    IF json_summary.t = "none" THEN 2
    ELSE IF json_summary.t \in {"dict", "list"} /\ json_summary.items = <<>> THEN 2
    ELSE LET found == search_parties(json_summary)
         IN  IF found.raised THEN 2
             ELSE IF found.parties = {} THEN 2
             ELSE IF \E w \in found.parties : ~PyInt(w).ok THEN 2
             ELSE MaxParty(found.parties)

(***************************************************************************)
(* The wizard                                                              *)
(***************************************************************************)
\* IRSEINAutomation.ENTITY_TYPE_MAPPING.get(entity_type, "limited")
ENTITY_TYPE_MAPPING_get(entity_type) ==
    CASE entity_type = "Limited Liability Company (LLC)" -> "limited"
      [] entity_type \in {"C-Corporation", "S-Corporation", "Corporation"} -> "corporations"
      [] entity_type = "Sole Proprietorship" -> "sole"
      [] entity_type = "Partnership" -> "partnerships"
      [] entity_type = "LLC" -> "limited"
      [] OTHER -> "limited"

\* `x or default` for an optional string
Or(x, default) == IF x = None \/ x = "" THEN default ELSE x

CONTINUE == "click Continue"

\* Steps 1 to 4 of run_automation, after the navigation
StepsToMemberPage(entity_type) ==
    << "click Begin Application",
       "select_radio " \o entity_type, CONTINUE,
       CONTINUE,
       "fill numbermem", "select_dropdown state", CONTINUE >>

\* A variant of step 5 that takes the branch for two members or more
MultiMemberSteps_atleast(llc_members) ==
    IF llc_members >= 2 THEN << "select_radio radio_n", CONTINUE >> ELSE << >>

\* Step 5 of run_automation
MultiMemberSteps(llc_members) ==
    IF llc_members = 2 THEN << "select_radio radio_n", CONTINUE >> ELSE << >>

(***************************************************************************)
(* Capture files.  A file name is a sequence of characters; so are the     *)
(* path and the URL made from it, whose directory and host parts are one   *)
(* element each.  NoneStr is None where such a string is expected.         *)
(***************************************************************************)
NoneStr == << None >>
StartTime == 1762000000     \* time.time() when the behaviour begins
STATIC_DIR == "static"      \* CONFIG['STATIC_DIR'], below the working directory
HOST_URL == "http://localhost:8000"     \* default of CONFIG['HOST_URL']
PRINT_ == << "p", "r", "i", "n", "t", "_" >>
DOT_PNG == << ".", "p", "n", "g" >>
DigitChars == << "0", "1", "2", "3", "4", "5", "6", "7", "8", "9" >>

\* the characters of the record ids in use
Chars(s) ==
    CASE s = "temp_record_id" ->
            << "t", "e", "m", "p", "_", "r", "e", "c", "o", "r", "d", "_", "i", "d" >>
      [] s = "temp_record" ->
            << "t", "e", "m", "p", "_", "r", "e", "c", "o", "r", "d" >>
      [] s = "a0X1" -> << "a", "0", "X", "1" >>

\* the characters in use, in the order of their code points
CodeOrder == << ".", "0", "1", "2", "3", "4", "5", "6", "7", "8", "9", "X", "_",
                "a", "c", "d", "e", "g", "i", "m", "n", "o", "p", "r", "t" >>
Ord(c) == CHOOSE i \in 1..Len(CodeOrder) : CodeOrder[i] = c

\* str() of a non-negative int
RECURSIVE Str(_)
Str(n) ==
    IF n < 10 THEN << DigitChars[n + 1] >>
    ELSE Str(n \div 10) \o << DigitChars[(n % 10) + 1] >>

\* f"print_{data.record_id}_{int(time.time())}.png"
png_filename(record_id, now) ==
    PRINT_ \o Chars(record_id) \o << "_" >> \o Str(now) \o DOT_PNG

\* A variant of capture_page_as_png that reports the path and URL of the
\* file whether or not it was written
capture_page_as_png_stale(filename, ok) ==
    [png_path |-> << STATIC_DIR, "/" >> \o filename,
     png_url |-> << HOST_URL, "/static/" >> \o filename,
     saved |-> IF ok THEN filename ELSE NoneStr]

\* FormAutomationBase.capture_page_as_png; ok tells whether printing the
\* page, converting it and saving the file all succeed
capture_page_as_png(filename, ok) ==
    IF ok THEN [png_path |-> << STATIC_DIR, "/" >> \o filename,
                png_url |-> << HOST_URL, "/static/" >> \o filename,
                saved |-> filename]
    ELSE [png_path |-> NoneStr, png_url |-> NoneStr, saved |-> NoneStr]

\* pix.save(png_path) on the directory: a file of that name is replaced
save(dir, name, record_id) ==
    {f \in dir : f.name # name} \cup {[name |-> name, by |-> record_id]}

\* os.listdir(CONFIG['STATIC_DIR'])
listdir(dir) == {f.name : f \in dir}

startswith(f, p) == Len(p) <= Len(f) /\ SubSeq(f, 1, Len(p)) = p
endswith(f, p) == Len(p) <= Len(f) /\ SubSeq(f, Len(f) - Len(p) + 1, Len(f)) = p

\* u <= v in Python's order of str
RECURSIVE StrLeq(_, _)
StrLeq(u, v) ==
    IF u = << >> THEN TRUE
    ELSE IF v = << >> THEN FALSE
    ELSE IF Head(u) = Head(v) THEN StrLeq(Tail(u), Tail(v))
    ELSE Ord(Head(u)) < Ord(Head(v))

\* sorted(png_files)[-1]
SortedLast(png_files) == CHOOSE f \in png_files : \A g \in png_files : StrLeq(g, f)

\* the file selection of download_screenshot
matching(names, record_id) ==
    {f \in names : /\ startswith(f, PRINT_ \o Chars(record_id) \o << "_" >>)
                   /\ endswith(f, DOT_PNG)}

\* GET /download-screenshot/{record_id}: the response
download_screenshot(names, record_id) ==
    LET png_files == matching(names, record_id)
    IN  IF png_files = {}
        THEN [status |-> 404, detail |-> "Screenshot not found"]
        ELSE [status |-> 200, file |-> << STATIC_DIR, "/" >> \o SortedLast(png_files)]

(***************************************************************************)
(* Text helpers of the form data.  A string is a sequence of characters;   *)
(* NoneStr is None.                                                        *)
(***************************************************************************)
SHARP_S == "<sharp s>"     \* the one character U+00DF
UPPERCASE == << "A", "B", "C", "D", "E", "F", "G", "H", "I", "J", "K", "L", "M", "N", "O", "P", "Q", "R", "S", "T", "U", "V", "W", "X", "Y", "Z" >>
LOWERCASE == << "a", "b", "c", "d", "e", "f", "g", "h", "i", "j", "k", "l", "m", "n", "o", "p", "q", "r", "s", "t", "u", "v", "w", "x", "y", "z" >>
Range(f) == {f[i] : i \in DOMAIN f}
IndexOf(c, f) == CHOOSE i \in DOMAIN f : f[i] = c

\* str.upper() on one character: a-z, and the sharp s, whose upper case is
\* two characters; the other characters in use have no upper case
UpperChar(c) ==
    IF c \in Range(LOWERCASE) THEN << UPPERCASE[IndexOf(c, LOWERCASE)] >>
    ELSE IF c = SHARP_S THEN << "S", "S" >>
    ELSE << c >>

\* str.lower() on one character of A-Z
LowerChar(c) ==
    IF c \in Range(UPPERCASE) THEN LOWERCASE[IndexOf(c, UPPERCASE)] ELSE c

\* str.upper()
RECURSIVE Upper(_)
Upper(s) == IF s = << >> THEN << >> ELSE UpperChar(Head(s)) \o Upper(Tail(s))

\* the characters str.strip() removes
IsSpace(c) == c \in {" ", "\t", "\n"}

RECURSIVE LStrip(_)
LStrip(s) == IF s # << >> /\ IsSpace(Head(s)) THEN LStrip(Tail(s)) ELSE s
RECURSIVE RStrip(_)
RStrip(s) ==
    IF s # << >> /\ IsSpace(s[Len(s)]) THEN RStrip(SubSeq(s, 1, Len(s) - 1)) ELSE s
\* str.strip()
Strip(s) == RStrip(LStrip(s))

\* `not s` for an Optional[str]
Falsy(s) == s = NoneStr \/ s = << >>

\* IRSEINAutomation.STATE_MAPPING: pairs of name and code
STATE_MAPPING ==
    {
      << << "A", "L", "A", "B", "A", "M", "A" >>,
         << "A", "L" >> >>,
      << << "A", "L", "A", "S", "K", "A" >>,
         << "A", "K" >> >>,
      << << "A", "R", "I", "Z", "O", "N", "A" >>,
         << "A", "Z" >> >>,
      << << "A", "R", "K", "A", "N", "S", "A", "S" >>,
         << "A", "R" >> >>,
      << << "C", "A", "L", "I", "F", "O", "R", "N", "I", "A" >>,
         << "C", "A" >> >>,
      << << "C", "O", "L", "O", "R", "A", "D", "O" >>,
         << "C", "O" >> >>,
      << << "C", "O", "N", "N", "E", "C", "T", "I", "C", "U", "T" >>,
         << "C", "T" >> >>,
      << << "D", "E", "L", "A", "W", "A", "R", "E" >>,
         << "D", "E" >> >>,
      << << "F", "L", "O", "R", "I", "D", "A" >>,
         << "F", "L" >> >>,
      << << "G", "E", "O", "R", "G", "I", "A" >>,
         << "G", "A" >> >>,
      << << "H", "A", "W", "A", "I", "I" >>,
         << "H", "I" >> >>,
      << << "I", "D", "A", "H", "O" >>,
         << "I", "D" >> >>,
      << << "I", "L", "L", "I", "N", "O", "I", "S" >>,
         << "I", "L" >> >>,
      << << "I", "N", "D", "I", "A", "N", "A" >>,
         << "I", "N" >> >>,
      << << "I", "O", "W", "A" >>,
         << "I", "A" >> >>,
      << << "K", "A", "N", "S", "A", "S" >>,
         << "K", "S" >> >>,
      << << "K", "E", "N", "T", "U", "C", "K", "Y" >>,
         << "K", "Y" >> >>,
      << << "L", "O", "U", "I", "S", "I", "A", "N", "A" >>,
         << "L", "A" >> >>,
      << << "M", "A", "I", "N", "E" >>,
         << "M", "E" >> >>,
      << << "M", "A", "R", "Y", "L", "A", "N", "D" >>,
         << "M", "D" >> >>,
      << << "M", "A", "S", "S", "A", "C", "H", "U", "S", "E", "T", "T", "S" >>,
         << "M", "A" >> >>,
      << << "M", "I", "C", "H", "I", "G", "A", "N" >>,
         << "M", "I" >> >>,
      << << "M", "I", "N", "N", "E", "S", "O", "T", "A" >>,
         << "M", "N" >> >>,
      << << "M", "I", "S", "S", "I", "S", "S", "I", "P", "P", "I" >>,
         << "M", "S" >> >>,
      << << "M", "I", "S", "S", "O", "U", "R", "I" >>,
         << "M", "O" >> >>,
      << << "M", "O", "N", "T", "A", "N", "A" >>,
         << "M", "T" >> >>,
      << << "N", "E", "B", "R", "A", "S", "K", "A" >>,
         << "N", "E" >> >>,
      << << "N", "E", "V", "A", "D", "A" >>,
         << "N", "V" >> >>,
      << << "N", "E", "W", " ", "H", "A", "M", "P", "S", "H", "I", "R", "E" >>,
         << "N", "H" >> >>,
      << << "N", "E", "W", " ", "J", "E", "R", "S", "E", "Y" >>,
         << "N", "J" >> >>,
      << << "N", "E", "W", " ", "M", "E", "X", "I", "C", "O" >>,
         << "N", "M" >> >>,
      << << "N", "E", "W", " ", "Y", "O", "R", "K" >>,
         << "N", "Y" >> >>,
      << << "N", "O", "R", "T", "H", " ", "C", "A", "R", "O", "L", "I", "N", "A" >>,
         << "N", "C" >> >>,
      << << "N", "O", "R", "T", "H", " ", "D", "A", "K", "O", "T", "A" >>,
         << "N", "D" >> >>,
      << << "O", "H", "I", "O" >>,
         << "O", "H" >> >>,
      << << "O", "K", "L", "A", "H", "O", "M", "A" >>,
         << "O", "K" >> >>,
      << << "O", "R", "E", "G", "O", "N" >>,
         << "O", "R" >> >>,
      << << "P", "E", "N", "N", "S", "Y", "L", "V", "A", "N", "I", "A" >>,
         << "P", "A" >> >>,
      << << "R", "H", "O", "D", "E", " ", "I", "S", "L", "A", "N", "D" >>,
         << "R", "I" >> >>,
      << << "S", "O", "U", "T", "H", " ", "C", "A", "R", "O", "L", "I", "N", "A" >>,
         << "S", "C" >> >>,
      << << "S", "O", "U", "T", "H", " ", "D", "A", "K", "O", "T", "A" >>,
         << "S", "D" >> >>,
      << << "T", "E", "N", "N", "E", "S", "S", "E", "E" >>,
         << "T", "N" >> >>,
      << << "T", "E", "X", "A", "S" >>,
         << "T", "X" >> >>,
      << << "U", "T", "A", "H" >>,
         << "U", "T" >> >>,
      << << "V", "E", "R", "M", "O", "N", "T" >>,
         << "V", "T" >> >>,
      << << "V", "I", "R", "G", "I", "N", "I", "A" >>,
         << "V", "A" >> >>,
      << << "W", "A", "S", "H", "I", "N", "G", "T", "O", "N" >>,
         << "W", "A" >> >>,
      << << "W", "E", "S", "T", " ", "V", "I", "R", "G", "I", "N", "I", "A" >>,
         << "W", "V" >> >>,
      << << "W", "I", "S", "C", "O", "N", "S", "I", "N" >>,
         << "W", "I" >> >>,
      << << "W", "Y", "O", "M", "I", "N", "G" >>,
         << "W", "Y" >> >>,
      << << "D", "I", "S", "T", "R", "I", "C", "T", " ", "O", "F", " ", "C", "O", "L", "U", "M", "B", "I", "A" >>,
         << "D", "C" >> >> }

\* dict.get(key, default) on a set of pairs
Get(mapping, key, default) ==
    IF \E p \in mapping : p[1] = key
    THEN (CHOOSE p \in mapping : p[1] = key)[2]
    ELSE default

\* A variant of normalize_state that looks the input up without strip()
normalize_state_nostrip(state) ==
    IF Falsy(state) THEN << "T", "X" >>
    ELSE LET state_clean == Upper(state)
         IN  Get(STATE_MAPPING, state_clean,
                 IF Len(state_clean) = 2 THEN state_clean ELSE << "T", "X" >>)

\* IRSEINAutomation.normalize_state
normalize_state(state) ==
    IF Falsy(state) THEN << "T", "X" >>
    ELSE LET state_clean == Strip(Upper(state))
         IN  Get(STATE_MAPPING, state_clean,
                 IF Len(state_clean) = 2 THEN state_clean ELSE << "T", "X" >>)

(***************************************************************************)
(* The field primitives of FormAutomationBase.  A primitive is given what  *)
(* the browser does during the call and yields the value it returns        *)
(* (True, False, or None when it falls off its end), whether an exception  *)
(* leaves it, and the browser calls it made, in order.                     *)
(***************************************************************************)
True == "True"
False == "False"
DEFAULT_RETRIES == 2

\* the browser calls of one attempt of click_button.  "ok": every call
\* returns; "timeout": wait.until raises TimeoutException; "intercepted":
\* button.click() raises
ClickAttempt(outcome) ==
    IF outcome = "timeout" THEN << "wait" >>
    ELSE << "wait", "scrollIntoView", "sleep 0.2", "click" >>

\* `for attempt in range(retries + 1)` from attempt on
RECURSIVE ClickLoop(_, _, _, _)
ClickLoop(attempt, retries, outcomes, calls) ==
    IF attempt >= retries + 1
    THEN \* the range is exhausted: the function ends without a return
         [value |-> None, raised |-> FALSE, attempts |-> attempt, calls |-> calls]
    ELSE LET made == calls \o ClickAttempt(outcomes[attempt + 1])
         IN  IF outcomes[attempt + 1] = "ok"
             THEN [value |-> True, raised |-> FALSE, attempts |-> attempt + 1,
                   calls |-> made]
             ELSE IF attempt = retries
             THEN [value |-> False, raised |-> FALSE, attempts |-> attempt + 1,
                   calls |-> made]
             ELSE ClickLoop(attempt + 1, retries, outcomes, made \o << "sleep 0.5" >>)

\* A variant of click_button that lets the exception of its last attempt through
click_button_raise(outcomes, retries) ==
    LET r == ClickLoop(0, retries, outcomes, << >>)
    IN  [r EXCEPT !.raised = (r.value = False)]

\* FormAutomationBase.click_button; outcomes[k] is what the browser does in
\* attempt number k
click_button(outcomes, retries) == ClickLoop(0, retries, outcomes, << >>)

\* A variant of fill_field that skips the empty value only
fill_field_nostrip(value, el, before) ==
    IF Falsy(value)
    THEN [value |-> False, raised |-> FALSE, calls |-> << >>, field |-> before]
    ELSE [value |-> True, raised |-> FALSE,
          calls |-> << "wait", "scrollIntoView", "clear", "send_keys" >>,
          field |-> value]

\* FormAutomationBase.fill_field.  el names the browser call that raises
\* ("ok": none; "wait": the element is not clickable within the timeout);
\* before is the content of the field, and field its content afterwards.
fill_field(value, el, before) ==
    IF Falsy(value) \/ Falsy(Strip(value))
    THEN [value |-> False, raised |-> FALSE, calls |-> << >>, field |-> before]
    ELSE CASE el = "wait" ->
                [value |-> False, raised |-> FALSE, calls |-> << "wait" >>,
                 field |-> before]
           [] el = "scrollIntoView" ->
                [value |-> False, raised |-> FALSE,
                 calls |-> << "wait", "scrollIntoView" >>, field |-> before]
           [] el = "clear" ->
                [value |-> False, raised |-> FALSE,
                 calls |-> << "wait", "scrollIntoView", "clear" >>, field |-> before]
           [] el = "send_keys" ->
                [value |-> False, raised |-> FALSE,
                 calls |-> << "wait", "scrollIntoView", "clear", "send_keys" >>,
                 field |-> << >>]
           [] el = "ok" ->
                [value |-> True, raised |-> FALSE,
                 calls |-> << "wait", "scrollIntoView", "clear", "send_keys" >>,
                 field |-> value]

\* FormAutomationBase.select_radio.  script is what execute_script does:
\* it returns a true value ("true"), a false one ("false"), or raises
select_radio(script) ==
    CASE script = "true" -> [value |-> True, raised |-> FALSE, calls |-> << "execute_script" >>]
      [] script = "false" -> [value |-> None, raised |-> FALSE, calls |-> << "execute_script" >>]
      [] script = "raises" -> [value |-> False, raised |-> FALSE, calls |-> << "execute_script" >>]

\* FormAutomationBase.select_dropdown.  el names the call that raises
select_dropdown(el) ==
    CASE el = "ok" -> [value |-> True, raised |-> FALSE,
                       calls |-> << "wait", "Select", "select_by_value" >>]
      [] el = "wait" -> [value |-> False, raised |-> FALSE, calls |-> << "wait" >>]
      [] el = "Select" -> [value |-> False, raised |-> FALSE,
                           calls |-> << "wait", "Select" >>]
      [] el = "select_by_value" ->
            [value |-> False, raised |-> FALSE,
             calls |-> << "wait", "Select", "select_by_value" >>]

\* One call of a field primitive by run_automation, with the default
\* retries; broken tells whether the element of this call is missing from
\* the page: the wait for it times out, the script on it raises.
Primitive(step, llc_members, broken) ==
    CASE step \in {"click Begin Application", CONTINUE} ->
            click_button([k \in 1..DEFAULT_RETRIES + 1 |->
                             IF broken THEN "timeout" ELSE "ok"], DEFAULT_RETRIES)
      [] step = "fill numbermem" ->
            fill_field(Str(llc_members), IF broken THEN "wait" ELSE "ok", << >>)
      [] step = "select_dropdown state" ->
            select_dropdown(IF broken THEN "wait" ELSE "ok")
      [] OTHER -> select_radio(IF broken THEN "raises" ELSE "true")

\* The primitive calls of run_automation from call number i on, one after
\* the other: the values they returned, or the number of the call that
\* raised.
RECURSIVE RunSteps(_, _, _, _, _)
RunSteps(steps, i, llc_members, broken, results) ==
    IF i > Len(steps) THEN [raised |-> FALSE, at |-> 0, results |-> results]
    ELSE LET r == Primitive(steps[i], llc_members, i \in broken)
         IN  IF r.raised THEN [raised |-> TRUE, at |-> i, results |-> results]
             ELSE RunSteps(steps, i + 1, llc_members, broken, Append(results, r.value))

\* The body of the try block of run_automation.  env is what the browser
\* and the clock do in this run: env.fail names the call that raises ("none"
\* when no call does: "chrome" is uc.Chrome(), "popups" is
\* _disable_popups(), "get" is driver.get()), env.msg is str() of that
\* exception, env.capture tells whether capture_page_as_png succeeds,
\* env.now is int(time.time()), env.broken holds the numbers of the
\* primitive calls whose element is missing.  The field primitives catch their
\* own exceptions and run_automation ignores their results.
\* Yields the exception that ends the block (exc), what is left in
\* self.driver, the browser calls made in order, the capture, and the
\* member count of step 4 (0 when the block ends before step 4).
WizardEnd(data, env, llc_members, steps, ran) ==
    LET capture == capture_page_as_png(png_filename(data.record_id, env.now),
                                       env.capture)
        stopped(driver, trace, str) ==
            [exc |-> [raised |-> TRUE, str |-> str], driver |-> driver,
             trace |-> trace, results |-> << >>,
             png_path |-> NoneStr, png_url |-> NoneStr,
             saved |-> NoneStr, llc_members |-> 0]
    IN  CASE env.fail = "chrome" -> stopped("none", << "init_browser" >>, env.msg)
          [] env.fail = "popups" -> stopped("live", << "init_browser" >>, env.msg)
          [] env.fail = "get" -> stopped("live", << "init_browser", "get" >>, env.msg)
          [] ran.raised ->
                \* the exception of a primitive ends the block at that call
                stopped("live",
                        << "init_browser", "get" >> \o SubSeq(steps, 1, ran.at),
                        "Message: element not interactable")
          [] OTHER ->
                [exc |-> [raised |-> FALSE, str |-> ""],
                 driver |-> "live",
                 trace |-> << "init_browser", "get" >> \o steps
                           \o << "_fill_remaining_steps", "capture_page_as_png" >>,
                 results |-> ran.results,
                 png_path |-> capture.png_path, png_url |-> capture.png_url,
                 saved |-> capture.saved,
                 llc_members |-> llc_members]

\* the try block from its first primitive call on, given the member count
\* of step 4 and the calls of steps 1 to 5
WizardSteps(data, env, llc_members, steps) ==
    WizardEnd(data, env, llc_members, steps,
              RunSteps(steps, 1, llc_members, env.broken, << >>))

WizardFrom(data, env, llc_members) ==
    WizardSteps(data, env, llc_members,
                StepsToMemberPage(ENTITY_TYPE_MAPPING_get(Or(data.entity_type, "LLC")))
                \o MultiMemberSteps(llc_members))

wizard(data, env) ==
    WizardFrom(data, env, determine_llc_members(data.json_summary))

\* env with the reading of the clock c seconds into the behaviour
At(env, c) ==
    [fail |-> env.fail, msg |-> env.msg, capture |-> env.capture,
     broken |-> env.broken, now |-> StartTime + c]

\* A variant of run_automation whose handler lets the exception through
run_automation_reraise(data, env) ==
    LET w == wizard(data, env)
    IN  [success |-> ~w.exc.raised,
         message |-> IF w.exc.raised THEN w.exc.str ELSE "Form completed successfully",
         png_path |-> w.png_path, png_url |-> w.png_url, saved |-> w.saved,
         driver |-> w.driver, trace |-> w.trace, results |-> w.results,
         llc_members |-> w.llc_members, raised |-> w.exc.raised]

\* IRSEINAutomation.run_automation: the try block and its
\* `except Exception`.  Returns the tuple (success, message, png_path,
\* png_url), with what the run left in self.driver, the calls it made, the
\* member count it computed, and whether an exception left it (raised).
run_automation(data, env) ==
    LET w == wizard(data, env)
    IN  IF w.exc.raised
        THEN [success |-> FALSE, message |-> w.exc.str,
              png_path |-> NoneStr, png_url |-> NoneStr, saved |-> w.saved,
              driver |-> w.driver, trace |-> w.trace, results |-> w.results,
              llc_members |-> w.llc_members, raised |-> FALSE]
        ELSE [success |-> TRUE, message |-> "Form completed successfully",
              png_path |-> w.png_path, png_url |-> w.png_url, saved |-> w.saved,
              driver |-> w.driver, trace |-> w.trace, results |-> w.results,
              llc_members |-> w.llc_members, raised |-> FALSE]

(***************************************************************************)
(* Browser ownership                                                       *)
(***************************************************************************)
\* A variant of cleanup that never calls driver.quit()
cleanup_noquit(au, a) == au

\* FormAutomationBase.cleanup on automation a.  self.driver stays set after
\* quit(), so every call on an automation that started a browser quits it.
cleanup(au, a) ==
    IF au[a].driver = "none" THEN au
    ELSE [au EXCEPT ![a] = [driver |-> "quit", quits |-> @.quits + 1]]

\* SessionManager.store_session
store_session(sess, record_id, a) ==
    [r \in DOMAIN sess \cup {record_id} |-> IF r = record_id THEN a ELSE sess[r]]

\* SessionManager.get_session; 0 stands for None
get_session(sess, record_id) ==
    IF record_id \in DOMAIN sess THEN sess[record_id] ELSE 0

\* A variant of remove_session that pops the session without cleaning it up
remove_session_nocleanup(sess, au, record_id) ==
    IF record_id \in DOMAIN sess
    THEN [sessions |-> [r \in DOMAIN sess \ {record_id} |-> sess[r]],
          autos |-> au, popped |-> sess[record_id]]
    ELSE [sessions |-> sess, autos |-> au, popped |-> 0]

\* A variant of remove_session that reads the session with get() and
\* leaves it in the store
remove_session_nopop(sess, au, record_id) ==
    IF record_id \in DOMAIN sess
    THEN [sessions |-> sess,
          autos |-> IF au[sess[record_id]].driver = "none" THEN au
                    ELSE [au EXCEPT ![sess[record_id]] =
                             [driver |-> "quit", quits |-> @.quits + 1]],
          popped |-> sess[record_id]]
    ELSE [sessions |-> sess, autos |-> au, popped |-> 0]

\* SessionManager.remove_session: the store and the automations afterwards
remove_session(sess, au, record_id) ==
    IF record_id \in DOMAIN sess
    THEN [sessions |-> [r \in DOMAIN sess \ {record_id} |-> sess[r]],
          autos |-> cleanup(au, sess[record_id]),
          popped |-> sess[record_id]]
    ELSE [sessions |-> sess, autos |-> au, popped |-> 0]

(***************************************************************************)
(* Requests                                                                *)
(***************************************************************************)
\* A variant of the check that accepts any header that is present
Authorized_present(authorization) == authorization # None

\* the check of the Authorization header in run_irs_ein_endpoint
Authorized(authorization) == authorization = "Bearer " \o API_KEY

\* DataProcessor.map_form_automation_data followed by CaseData's
\* validation.  body.fa tells what the body holds under Form_Automation__c:
\* nothing ("absent", so every lookup yields None), a dict ("dict"), or a
\* value without .get ("str", AttributeError).  json_summary is declared
\* Optional[dict]: any other document is a validation error.
map_form_automation_data(body) ==
    IF body.fa = "str"
    THEN [ok |-> FALSE, error |-> "'str' object has no attribute 'get'"]
    ELSE LET entity_type == IF body.fa = "dict" THEN body.Entity_Type__c ELSE None
             json_summary == IF body.fa = "dict" THEN body.JSON_Summary__c ELSE JsonNone
         IN  IF json_summary.t \notin {"none", "dict"}
             THEN [ok |-> FALSE, error |-> "1 validation error for CaseData"]
             ELSE [ok |-> TRUE,
                   case |-> [record_id |-> TEMP_RECORD_ID,
                             entity_type |-> entity_type,
                             json_summary |-> json_summary]]

\* str(e) of the HTTPException(status_code=500, detail=message) that the
\* endpoint's own `except Exception` catches.  Starlette's HTTPException
\* defines __str__ as "<status>: <detail>" in its current releases and
\* inherits Exception.__str__ (no positional args: "") in older ones; the
\* repository pins no version.
StrHTTPException(status_code, detail, build) ==
    IF build = "str" THEN ToString(status_code) \o ": " \o detail ELSE ""

\* POST /run-irs-ein up to its first suspension or its error response
RunRequest(authorization, body, env, build) ==
    /\ reqs < MaxRequests
    /\ reqs' = reqs + 1
    /\ lastReq' = [kind |-> "run", authorization |-> authorization]
    /\ UNCHANGED <<timeouts, lastEvict, clock, lastHook, fn>>
    /\ IF ~Authorized(authorization) THEN
            /\ resp' = [req |-> reqs + 1, kind |-> "run", status |-> 401,
                        detail |-> "Invalid API key"]
            /\ UNCHANGED <<sessions, autos, numAutos, awaiting, lastRun, files>>
       ELSE \E m \in {map_form_automation_data(body)} :
            IF ~m.ok THEN
                /\ resp' = [req |-> reqs + 1, kind |-> "run", status |-> 500,
                            detail |-> m.error]
                /\ UNCHANGED <<sessions, autos, numAutos, awaiting, lastRun, files>>
            ELSE
                \E r \in {run_automation(m.case, At(env, clock))} :
                LET a == numAutos + 1
                    started == [autos EXCEPT ![a] = [driver |-> r.driver, quits |-> 0]]
                IN  /\ numAutos' = a
                    /\ files' = IF r.saved = NoneStr THEN files
                                 ELSE save(files, r.saved, m.case.record_id)
                    /\ lastRun' = [auto |-> a, req |-> reqs + 1, data |-> m.case,
                                   env |-> At(env, clock),
                                   success |-> r.success, message |-> r.message,
                                   png_path |-> r.png_path,
                                   png_url |-> r.png_url, saved |-> r.saved,
                                   driver |-> r.driver,
                                   trace |-> r.trace, raised |-> r.raised,
                                   llc_members |-> r.llc_members]
                    /\ IF r.raised THEN
                            \* an exception out of run_automation reaches
                            \* `except Exception` without any cleanup
                            /\ autos' = started
                            /\ resp' = [req |-> reqs + 1, kind |-> "run",
                                        status |-> 500, detail |-> r.message]
                            /\ UNCHANGED <<sessions, awaiting>>
                       ELSE IF r.success THEN
                            /\ autos' = started
                            /\ sessions' = store_session(sessions, m.case.record_id, a)
                            /\ awaiting' = awaiting \cup
                                  {[auto |-> a, req |-> reqs + 1,
                                    record_id |-> m.case.record_id,
                                    message |-> r.message, png_url |-> r.png_url]}
                            /\ UNCHANGED resp
                       ELSE
                            /\ autos' = cleanup(started, a)
                            /\ resp' = [req |-> reqs + 1, kind |-> "run",
                                        status |-> 500,
                                        detail |-> StrHTTPException(500, r.message, build)]
                            /\ UNCHANGED <<sessions, awaiting>>

\* _send_completion_notification: the payload posted, and how the POST
\* ended ("200", another status "other", or an exception "raised"); each
\* ending is logged and the coroutine returns None
send_completion_notification(req, record_id, status, message, png_url, outcome) ==
    [req |-> req,
     payload |-> [record_id |-> record_id, status |-> status,
                  message |-> message, png_url |-> png_url],
     outcome |-> outcome]

\* POST /run-irs-ein from the return of _send_completion_notification:
\* asyncio.create_task(_timeout_session(record_id)) and the response
RunNotified(w, outcome) ==
    /\ w \in awaiting
    /\ awaiting' = awaiting \ {w}
    /\ lastHook' = send_completion_notification(w.req, w.record_id, "Completed",
                                                w.message, w.png_url, outcome)
    /\ timeouts' = Append(timeouts, [record_id |-> w.record_id, by |-> w.auto,
                                     seen |-> numAutos])
    /\ resp' = [req |-> w.req, kind |-> "run", status |-> 200,
                body |-> [status |-> "Completed", record_id |-> w.record_id,
                          png_url |-> w.png_url]]
    /\ UNCHANGED <<sessions, autos, numAutos, reqs, lastReq, lastRun, lastEvict,
                   clock, files, fn>>

\* POST /submit-decision
SubmitDecision(record_id, proceed) ==
    /\ reqs < MaxRequests
    /\ reqs' = reqs + 1
    /\ lastReq' = [kind |-> "decision", record_id |-> record_id, proceed |-> proceed]
    /\ UNCHANGED <<numAutos, awaiting, timeouts, lastRun, clock, files, lastHook, fn>>
    /\ LET automation == get_session(sessions, record_id) IN
       IF automation = 0 THEN
            /\ resp' = [req |-> reqs + 1, kind |-> "decision", status |-> 404,
                        detail |-> "Session not found"]
            /\ UNCHANGED <<sessions, autos, lastEvict>>
       ELSE \E rm \in {remove_session(sessions, autos, record_id)} :
            /\ resp' = [req |-> reqs + 1, kind |-> "decision", status |-> 200,
                        body |-> [status |-> "Completed", record_id |-> record_id,
                                  message |-> IF proceed
                                              THEN "Form submitted successfully"
                                              ELSE "Process cancelled"]]
            /\ sessions' = rm.sessions
            /\ autos' = rm.autos
            /\ lastEvict' = [by |-> "decision", record_id |-> record_id,
                             popped |-> rm.popped, task |-> 0]

\* _timeout_session after its sleep.  Every task sleeps BROWSER_TIMEOUT, so
\* the tasks wake in the order they were created.
TimeoutFire ==
    /\ timeouts # << >>
    /\ \E t \in {Head(timeouts)} :
       \E rm \in {remove_session(sessions, autos, t.record_id)} :
           /\ sessions' = rm.sessions
           /\ autos' = rm.autos
           /\ lastEvict' = [by |-> "timeout", record_id |-> t.record_id,
                            popped |-> rm.popped, task |-> t.by]
    /\ timeouts' = Tail(timeouts)
    /\ UNCHANGED <<numAutos, awaiting, reqs, lastReq, lastRun, resp, clock, files,
                   lastHook, fn>>

\* GET /download-screenshot/{record_id}
Download(record_id) ==
    /\ reqs < MaxRequests
    /\ reqs' = reqs + 1
    /\ lastReq' = [kind |-> "download", record_id |-> record_id]
    /\ \E d \in {download_screenshot(listdir(files), record_id)} :
          resp' = IF d.status = 404
                  THEN [req |-> reqs + 1, kind |-> "download", status |-> 404,
                        detail |-> d.detail]
                  ELSE [req |-> reqs + 1, kind |-> "download", status |-> 200,
                        file |-> d.file]
    /\ UNCHANGED <<sessions, autos, numAutos, awaiting, timeouts, lastRun, lastEvict,
                   clock, files, lastHook, fn>>

\* time.time() reaches the next second.  It is the wall clock, and the code
\* waits for nothing between two readings of it that would span a second
\* (a run whose clicks all succeed sleeps 0.2 s per click): any number of
\* runs may read the same second.
Tick ==
    /\ clock < MaxClock
    /\ clock' = clock + 1
    /\ UNCHANGED <<sessions, autos, numAutos, awaiting, timeouts, reqs, lastReq,
                   lastRun, resp, lastEvict, files, lastHook, fn>>

(***************************************************************************)
(* Inputs                                                                  *)
(***************************************************************************)
AuthHeaders == {None, "Bearer " \o API_KEY, "Bearer wrong", API_KEY,
                "bearer " \o API_KEY}
RecordIds == {TEMP_RECORD_ID, "a0X1"}
Messages == {"", "Message: chrome not reachable"}
Builds == {"str", "args"}
\* what the browser does in one run: msg matters when a call raises,
\* capture when none does.  The handlers never see which elements of the
\* page were missing: these runs find them all.
Envs == {e \in [fail : {"none", "chrome", "popups", "get"}, msg : Messages,
                capture : BOOLEAN, broken : {{}}] :
            /\ e.fail = "none" => e.msg = ""
            /\ e.fail # "none" => ~e.capture}

Item(k, v) == [k |-> k, v |-> v]
NestedSummary ==
    Dict(<< Item(<< "x" >>, List(<< Dict(<< Item(<< MARK, "9" >>, Scalar) >>) >>)),
            Item(<< MARK_UPPER, "1", "0" >>, Scalar) >>)
FormBody(fa, entity_type, json_summary) ==
    [fa |-> fa, Entity_Type__c |-> entity_type, JSON_Summary__c |-> json_summary]
Bodies ==
    { FormBody("absent", None, JsonNone),
      FormBody("str", None, JsonNone),
      FormBody("dict", "Corporation", NestedSummary),
      FormBody("dict", "LLC", Scalar) }
QuietEnv == [fail |-> "none", msg |-> "", capture |-> TRUE, broken |-> {}]

\* how the webhook POST can end
HookOutcomes == {"200", "other", "raised"}
\* the record ids /download-screenshot is asked for
DownloadIds == {TEMP_RECORD_ID, "temp_record", "a0X1"}

\* The requests POST /run-irs-ein is tried with.  Inputs the handler never
\* reads are held fixed: the body and the browser when the header is
\* rejected, the browser when the body is rejected, the build when no call
\* of the run raises.
RunInputs ==
    {i \in [authorization : AuthHeaders, body : Bodies, env : Envs, build : Builds] :
        /\ i.authorization # "Bearer " \o API_KEY => i.body.fa = "absent"
        /\ (i.authorization # "Bearer " \o API_KEY
                \/ i.body.fa = "str" \/ i.body.JSON_Summary__c = Scalar)
              => i.env = QuietEnv
        /\ i.env.fail = "none" => i.build = "str"}

(***************************************************************************)
(* The server                                                              *)
(***************************************************************************)
ServerInit ==
    /\ sessions = [r \in {} |-> 0]
    /\ autos = [a \in AutoIds |-> [driver |-> "none", quits |-> 0]]
    /\ numAutos = 0
    /\ awaiting = {}
    /\ timeouts = << >>
    /\ reqs = 0
    /\ lastReq = [kind |-> "none"]
    /\ lastRun = [auto |-> 0]
    /\ resp = [req |-> 0, kind |-> "none", status |-> 0]
    /\ lastEvict = [by |-> "none", record_id |-> None, popped |-> 0, task |-> 0]
    /\ clock = 0
    /\ files = {}
    /\ lastHook = [req |-> 0, outcome |-> "none"]

Init == ServerInit /\ fn = [name |-> "none"]

Next ==
    \/ \E i \in RunInputs : RunRequest(i.authorization, i.body, i.env, i.build)
    \/ \E w \in awaiting, outcome \in HookOutcomes : RunNotified(w, outcome)
    \/ \E record_id \in RecordIds, proceed \in BOOLEAN : SubmitDecision(record_id, proceed)
    \/ TimeoutFire

Spec == Init /\ [][Next]_vars

\* The notification's HTTP call returns or raises within the client's
\* timeout, and asyncio.sleep returns: a suspended request and a sleeping
\* timeout task are resumed.
FairSpec ==
    /\ Spec
    /\ WF_vars(\E w \in awaiting, outcome \in HookOutcomes : RunNotified(w, outcome))
    /\ WF_vars(TimeoutFire)

(***************************************************************************)
(* The capture directory: runs that reach the capture or stop before it,   *)
(* at the seconds of the clock, and the downloads.  /submit-decision and   *)
(* _timeout_session leave the directory and the clock alone.               *)
(***************************************************************************)
CaptureInputs ==
    {i \in RunInputs : i.authorization = "Bearer " \o API_KEY /\ i.body.fa = "dict"}

NextFiles ==
    \/ \E i \in CaptureInputs : RunRequest(i.authorization, i.body, i.env, i.build)
    \/ \E w \in awaiting, outcome \in HookOutcomes : RunNotified(w, outcome)
    \/ \E record_id \in DownloadIds : Download(record_id)
    \/ Tick

SpecFiles == Init /\ [][NextFiles]_vars

(***************************************************************************)
(* determine_llc_members applied on its own to bounded documents: a dict   *)
(* whose one key o holds, under d layers of lists and dicts, a dict with   *)
(* the one key k.                                                          *)
(***************************************************************************)
Keys == UNION {[1..n -> KeyAtoms] : n \in 1..MaxKeyLen}
OuterKeys == { << "x" >>, << MARK, "9" >>, << MARK_TITLE >>, << MARK_UPPER, "x" >> }

RECURSIVE Wrap(_, _)
Wrap(doc, d) ==
    IF d = 0 THEN doc
    ELSE IF d % 2 = 1 THEN List(<< Scalar, Wrap(doc, d - 1) >>)
    ELSE Dict(<< Item(<< "x", "x" >>, Wrap(doc, d - 1)) >>)

Document(o, k, d) == Dict(<< Item(o, Wrap(Dict(<< Item(k, Scalar) >>), d)) >>)

Documents ==
    {JsonNone, Scalar, Dict(<< >>), List(<< >>)}
    \cup {Document(o, k, d) : o \in OuterKeys, k \in Keys, d \in 0..MaxDepth}

InitLlc ==
    /\ ServerInit
    /\ fn \in {[name |-> "determine_llc_members", arg |-> doc, done |-> FALSE, out |-> 0] :
                 doc \in Documents}

ApplyLlc ==
    /\ fn.name = "determine_llc_members" /\ ~fn.done
    /\ fn' = [fn EXCEPT !.done = TRUE, !.out = determine_llc_members(fn.arg)]
    /\ UNCHANGED serverVars

NextLlc == ApplyLlc

SpecLlc == InitLlc /\ [][NextLlc]_vars

(***************************************************************************)
(* run_automation applied on its own to bounded records and browsers       *)
(***************************************************************************)
EntityTypes == {None, "", "LLC", "Limited Liability Company (LLC)", "Corporation",
                "Sole Proprietorship", "Partnership", "Trust"}
WizardSummaries ==
    { JsonNone, Dict(<< >>), NestedSummary,
      Dict(<< Item(<< MARK, "1" >>, Scalar) >>),
      Dict(<< Item(<< MARK_TITLE, "2", " ", "x" >>, Scalar) >>),
      Dict(<< Item(<< MARK, "3" >>, Scalar) >>),
      Dict(<< Item(<< MARK, "x" >>, Scalar) >>) }
Cases == [record_id : {TEMP_RECORD_ID}, entity_type : EntityTypes,
          json_summary : WizardSummaries]

\* the primitive calls of the longest run, by number
WizardCalls == DOMAIN (StepsToMemberPage("limited") \o MultiMemberSteps(2))
\* the browsers of Envs at each second, and the browser in which no call
\* raises with every set of missing elements
WizardEnvs ==
    {At(env, c) : env \in Envs, c \in 0..MaxClock}
    \cup {At([QuietEnv EXCEPT !.broken = b], 0) : b \in SUBSET WizardCalls}

InitWizard ==
    /\ ServerInit
    /\ fn \in {[name |-> "run_automation", data |-> data, env |-> env,
                done |-> FALSE, out |-> [success |-> FALSE]] :
                 data \in Cases, env \in WizardEnvs}

RunWizard ==
    /\ fn.name = "run_automation" /\ ~fn.done
    /\ fn' = [fn EXCEPT !.done = TRUE, !.out = run_automation(fn.data, fn.env)]
    /\ UNCHANGED serverVars

NextWizard == RunWizard

SpecWizard == InitWizard /\ [][NextWizard]_vars

(***************************************************************************)
(* normalize_state applied on its own: None, the names and codes of the    *)
(* table in upper and lower case with white space around them, and every   *)
(* short string over a few characters.                                     *)
(***************************************************************************)
Seqs(S, n) == UNION {[1..k -> S] : k \in 0..n}
Pads == Seqs({" ", "\t"}, MaxPad)
Padded(cores) == {l \o c \o r : l \in Pads, r \in Pads, c \in cores}
LowerStr(s) == [i \in DOMAIN s |-> LowerChar(s[i])]
StateChars == {" ", "t", "X", "1", SHARP_S}
StateCores ==
    LET upper == {p[1] : p \in STATE_MAPPING} \cup {p[2] : p \in STATE_MAPPING}
    IN  upper \cup {LowerStr(s) : s \in upper}
StateInputs == {NoneStr} \cup Padded(StateCores) \cup Seqs(StateChars, MaxStateLen)

InitState ==
    /\ ServerInit
    /\ fn \in {[name |-> "normalize_state", arg |-> s, done |-> FALSE, out |-> << >>] :
                 s \in StateInputs}

ApplyState ==
    /\ fn.name = "normalize_state" /\ ~fn.done
    /\ fn' = [fn EXCEPT !.done = TRUE, !.out = normalize_state(fn.arg)]
    /\ UNCHANGED serverVars

NextState == ApplyState

SpecState == InitState /\ [][NextState]_vars

(***************************************************************************)
(* format_phone applied on its own: None, and numbers of 0 to              *)
(* MaxPhoneDigits digits written with and without separators.              *)
(***************************************************************************)
ARABIC_THREE == "<arabic-indic digit three>"    \* the one character U+0663
DEFAULT_PHONE == << "2", "8", "1", "2", "1", "7", "3", "1", "2", "3" >>

\* what \d matches in a str pattern: the decimal digits of Unicode
IsDecimalDigit(c) == c \in Range(DigitChars) \cup {ARABIC_THREE}

\* re.sub(r'\D', '', phone)
StripNonDigits(phone) == SelectSeq(phone, IsDecimalDigit)

\* A variant of format_phone that does not strip the separators
format_phone_raw(phone) ==
    LET given == IF Falsy(phone) THEN DEFAULT_PHONE ELSE phone
        clean_phone == IF Len(given) # 10 THEN DEFAULT_PHONE ELSE given
    IN  << SubSeq(clean_phone, 1, 3), SubSeq(clean_phone, 4, 6),
           SubSeq(clean_phone, 7, 10) >>

\* IRSEINAutomation.format_phone
format_phone(phone) ==
    LET given == IF Falsy(phone) THEN DEFAULT_PHONE ELSE phone
        stripped == StripNonDigits(given)
        clean_phone == IF Len(stripped) # 10 THEN DEFAULT_PHONE ELSE stripped
    IN  << SubSeq(clean_phone, 1, 3), SubSeq(clean_phone, 4, 6),
           SubSeq(clean_phone, 7, 10) >>

\* the n digits k+1, k+2, ... (mod 10)
PhoneDigits(n, k) == [i \in 1..n |-> DigitChars[((k + i) % 10) + 1]]
PhoneNumbers ==
    {PhoneDigits(n, k) : n \in 0..MaxPhoneDigits, k \in {0, 1}}
    \cup {[PhoneDigits(n, 0) EXCEPT ![1] = ARABIC_THREE] : n \in 1..MaxPhoneDigits}
PhoneSeps == {"-", " ", "(", "+", "x"}

\* the digits d with the separator written before the digits at the
\* positions after at (0 is the start)
RECURSIVE Layout(_, _, _, _)
Layout(d, sep, at, i) ==
    IF i > Len(d) THEN IF Len(d) \in at THEN << sep >> ELSE << >>
    ELSE (IF i - 1 \in at THEN << sep >> ELSE << >>) \o << d[i] >>
         \o Layout(d, sep, at, i + 1)

PhoneInputs ==
    {NoneStr}
    \cup {Layout(d, sep, at, 1) : d \in PhoneNumbers, sep \in PhoneSeps,
                                  at \in SUBSET {0, 3, 6}}

InitPhone ==
    /\ ServerInit
    /\ fn \in {[name |-> "format_phone", arg |-> s, done |-> FALSE, out |-> << >>] :
                 s \in PhoneInputs}

ApplyPhone ==
    /\ fn.name = "format_phone" /\ ~fn.done
    /\ fn' = [fn EXCEPT !.done = TRUE, !.out = format_phone(fn.arg)]
    /\ UNCHANGED serverVars

NextPhone == ApplyPhone

SpecPhone == InitPhone /\ [][NextPhone]_vars

(***************************************************************************)
(* parse_formation_date.  datetime.strptime compiles the format to a       *)
(* regular expression: %Y is \d\d\d\d, %m is 1[0-2]|0[1-9]|[1-9], %d is    *)
(* 3[0-1]|[1-2]\d|0[1-9]|[1-9]| [1-9]; the text must match from its start  *)
(* and nothing may remain after the match; the numbers must then make a    *)
(* date of the calendar, years 1 to 9999.  In the three formats a field    *)
(* is followed by a separator or by the end, so the first alternative      *)
(* that matches at a position is the one the match keeps.                  *)
(***************************************************************************)
FORMATS == << << "%Y", "-", "%m", "-", "%d" >>,
              << "%m", "/", "%d", "/", "%Y" >>,
              << "%Y", "/", "%m", "/", "%d" >> >>
DEFAULT_DATE == << 6, 2024 >>

IntOfDigit(c) == IF c = ARABIC_THREE THEN 3 ELSE IndexOf(c, DigitChars) - 1
CharAt(s, i) == IF i \in DOMAIN s THEN s[i] ELSE ""
OneToNine(c) == c \in Range(DigitChars) \ {"0"}

\* the number of characters the field takes at position i of s; 0: no match
FieldLen(field, s, i) ==
    LET a == CharAt(s, i)
        b == CharAt(s, i + 1)
    IN  CASE field = "%Y" ->
                IF \A k \in 0..3 : IsDecimalDigit(CharAt(s, i + k)) THEN 4 ELSE 0
          [] field = "%m" ->
                IF a = "1" /\ b \in {"0", "1", "2"} THEN 2
                ELSE IF a = "0" /\ OneToNine(b) THEN 2
                ELSE IF OneToNine(a) THEN 1
                ELSE 0
          [] field = "%d" ->
                IF a = "3" /\ b \in {"0", "1"} THEN 2
                ELSE IF a \in {"1", "2"} /\ IsDecimalDigit(b) THEN 2
                ELSE IF a = "0" /\ OneToNine(b) THEN 2
                ELSE IF OneToNine(a) THEN 1
                ELSE IF a = " " /\ OneToNine(b) THEN 2
                ELSE 0

\* int() of the text of a field: white space around the digits is ignored
RECURSIVE IntOf(_)
IntOf(w) ==
    IF w = << >> THEN 0
    ELSE IF IsSpace(Head(w)) THEN IntOf(Tail(w))
    ELSE 10 * IntOf(SubSeq(w, 1, Len(w) - 1)) + IntOfDigit(w[Len(w)])

\* the match of the tokens of a format from token t at position i: the
\* numbers of the fields, or no match
RECURSIVE MatchFrom(_, _, _, _, _)
MatchFrom(fmt, t, s, i, found) ==
    IF t > Len(fmt)
    THEN IF i = Len(s) + 1 THEN [ok |-> TRUE, found |-> found]
         ELSE [ok |-> FALSE]      \* unconverted data remains
    ELSE IF fmt[t] \in {"%Y", "%m", "%d"}
    THEN LET n == FieldLen(fmt[t], s, i)
         IN  IF n = 0 THEN [ok |-> FALSE]
             ELSE MatchFrom(fmt, t + 1, s, i + n,
                            [found EXCEPT ![fmt[t]] = IntOf(SubSeq(s, i, i + n - 1))])
    ELSE IF CharAt(s, i) = fmt[t] THEN MatchFrom(fmt, t + 1, s, i + 1, found)
    ELSE [ok |-> FALSE]

IsLeap(year) == year % 4 = 0 /\ (year % 100 # 0 \/ year % 400 = 0)
DaysInMonth(year, month) ==
    IF month = 2 THEN (IF IsLeap(year) THEN 29 ELSE 28)
    ELSE IF month \in {4, 6, 9, 11} THEN 30
    ELSE 31
\* the dates datetime accepts
IsDate(year, month, day) ==
    /\ year \in 1..9999
    /\ month \in 1..12
    /\ day \in 1..DaysInMonth(year, month)

\* datetime.strptime(s, fmt): the date, or ValueError
strptime(s, fmt) ==
    LET m == MatchFrom(fmt, 1, s, 1, [f \in {"%Y", "%m", "%d"} |-> 0])
    IN  IF m.ok /\ IsDate(m.found["%Y"], m.found["%m"], m.found["%d"])
        THEN [ok |-> TRUE, year |-> m.found["%Y"], month |-> m.found["%m"],
              day |-> m.found["%d"]]
        ELSE [ok |-> FALSE]

\* the loop over formats from format number k on
RECURSIVE TryFormats(_, _, _)
TryFormats(formats, s, k) ==
    IF k > Len(formats) THEN DEFAULT_DATE
    ELSE LET parsed == strptime(s, formats[k])
         IN  IF parsed.ok THEN << parsed.month, parsed.year >>
             ELSE TryFormats(formats, s, k + 1)

\* A variant of parse_formation_date that knows the first format only
parse_formation_date_iso(date_str) ==
    IF Falsy(date_str) THEN DEFAULT_DATE
    ELSE TryFormats(<< FORMATS[1] >>, Strip(date_str), 1)

\* IRSEINAutomation.parse_formation_date
parse_formation_date(date_str) ==
    IF Falsy(date_str) THEN DEFAULT_DATE
    ELSE TryFormats(FORMATS, Strip(date_str), 1)

(***************************************************************************)
(* parse_formation_date applied on its own: None, the empty string, and    *)
(* dates, real and not, written year first, month first or day first with  *)
(* one of three separators, with and without leading zeros, with and       *)
(* without white space around them.                                        *)
(***************************************************************************)
DateYears == {0, 1, 1900, 2000, 2024, 9999}
DateMonths == 0..13
DateDays == {0, 1, 10, 28, 29, 30, 31, 32}
Dates == [year : DateYears, month : DateMonths, day : DateDays]
CalendarDates == {date \in Dates : IsDate(date.year, date.month, date.day)}

\* n in at least width digits
RECURSIVE ZeroPad(_, _)
ZeroPad(n, width) ==
    IF width <= 1 THEN Str(n)
    ELSE IF Len(Str(n)) >= width THEN Str(n)
    ELSE << "0" >> \o ZeroPad(n, width - 1)
\* a month or day: with a leading zero ("0"), bare (""), or after a space (" ")
Short(n, lead) ==
    IF n >= 10 THEN Str(n)
    ELSE IF lead = "0" THEN << "0" >> \o Str(n)
    ELSE IF lead = " " THEN << " " >> \o Str(n)
    ELSE Str(n)

Styles == [order : {"YMD", "MDY", "DMY"}, sep : {"-", "/", "."},
           mlead : {"0", ""}, dlead : {"0", "", " "}]
Written(date, style) ==
    LET Y == ZeroPad(date.year, 4)
        M == Short(date.month, style.mlead)
        D == Short(date.day, style.dlead)
        S == << style.sep >>
    IN  CASE style.order = "YMD" -> Y \o S \o M \o S \o D
          [] style.order = "MDY" -> M \o S \o D \o S \o Y
          [] style.order = "DMY" -> D \o S \o M \o S \o Y

\* the three writings of the formats, with leading zeros
ThreeStyles ==
    {style \in Styles : /\ style.mlead = "0" /\ style.dlead = "0"
                        /\ << style.order, style.sep >> \in
                              {<< "YMD", "-" >>, << "MDY", "/" >>, << "YMD", "/" >>}}

DateInputs ==
    {[arg |-> NoneStr], [arg |-> << >>]}
    \cup {[arg |-> p \o Written(date, style) \o p, date |-> date, style |-> style] :
            date \in Dates, style \in Styles, p \in Pads}

InitDate ==
    /\ ServerInit
    /\ fn \in {[name |-> "parse_formation_date", in |-> i, done |-> FALSE,
                out |-> << >>] : i \in DateInputs}

ApplyDate ==
    /\ fn.name = "parse_formation_date" /\ ~fn.done
    /\ fn' = [fn EXCEPT !.done = TRUE, !.out = parse_formation_date(fn.in.arg)]
    /\ UNCHANGED serverVars

NextDate == ApplyDate

SpecDate == InitDate /\ [][NextDate]_vars

(***************************************************************************)
(* click_button applied on its own: every retries value from -2 to         *)
(* MaxRetries and every way the attempts can end.                          *)
(***************************************************************************)
ClickOutcomes == {"ok", "timeout", "intercepted"}
ClickInputs ==
    [retries : -2..MaxRetries, outcomes : [1..MaxRetries + 1 -> ClickOutcomes]]

InitClick ==
    /\ ServerInit
    /\ fn \in {[name |-> "click_button", retries |-> i.retries,
                outcomes |-> i.outcomes, done |-> FALSE,
                out |-> [value |-> None]] : i \in ClickInputs}

ApplyClick ==
    /\ fn.name = "click_button" /\ ~fn.done
    /\ fn' = [fn EXCEPT !.done = TRUE, !.out = click_button(fn.outcomes, fn.retries)]
    /\ UNCHANGED serverVars

NextClick == ApplyClick

SpecClick == InitClick /\ [][NextClick]_vars

(***************************************************************************)
(* fill_field applied on its own: missing, empty, blank and non-blank      *)
(* values, fields with and without content, and every call that can raise. *)
(***************************************************************************)
FillValues ==
    {NoneStr} \cup Seqs({" ", "\t", "2"}, MaxFillLen)
FillOutcomes == {"ok", "wait", "scrollIntoView", "clear", "send_keys"}
FieldContents == {<< >>, << "7" >>}

InitFill ==
    /\ ServerInit
    /\ fn \in {[name |-> "fill_field", value |-> v, el |-> el, before |-> b,
                done |-> FALSE, out |-> [value |-> None]] :
                 v \in FillValues, el \in FillOutcomes, b \in FieldContents}

ApplyFill ==
    /\ fn.name = "fill_field" /\ ~fn.done
    /\ fn' = [fn EXCEPT !.done = TRUE, !.out = fill_field(fn.value, fn.el, fn.before)]
    /\ UNCHANGED serverVars

NextFill == ApplyFill

SpecFill == InitFill /\ [][NextFill]_vars

(***************************************************************************)
(* Properties of the server                                                *)
(***************************************************************************)
Stored(a) == \E r \in DOMAIN sessions : sessions[r] = a
Without(sess, record_id) == [r \in DOMAIN sess \ {record_id} |-> sess[r]]
RunArrives == reqs' = reqs + 1 /\ lastReq'.kind = "run"
DecisionArrives == reqs' = reqs + 1 /\ lastReq'.kind = "decision"
TimeoutWakes == Len(timeouts') < Len(timeouts)

\* C1: in every reachable state an automation whose run request has
\* completed is in the session store if and only if the browser it started
\* is live (started and not quit); no browser is live while absent from the
\* store, also after a second successful run stored a session under the
\* same record id.
C1_StoreIffLive ==
    \A a \in AutoIds :
        (\A w \in awaiting : w.auto # a)
            => (Stored(a) <=> autos[a].driver = "live")

\* C2: every browser that is live is eventually quit, under fair
\* scheduling of the suspended requests and the timeout tasks.
C2_EveryBrowserReleased ==
    \A a \in AutoIds : (autos[a].driver = "live") ~> (autos[a].driver = "quit")

\* C3: a POST /run-irs-ein whose Authorization header is not exactly
\* "Bearer <API_KEY>" (a missing header included) is answered 401 and
\* starts no browser, stores no session, suspends no request and schedules
\* no timeout task.
C3_Unauthorized401 ==
    [][ (RunArrives /\ lastReq'.authorization # "Bearer " \o API_KEY)
        => /\ resp' = [req |-> reqs', kind |-> "run", status |-> 401,
                       detail |-> "Invalid API key"]
           /\ UNCHANGED <<sessions, autos, numAutos, awaiting, timeouts>> ]_vars

C3_Witness ==
    /\ lastReq.kind = "run" /\ lastReq.authorization = None
    /\ resp.req = reqs /\ resp.status = 401
    /\ Stored(1) /\ timeouts # << >>

\* C4: POST /submit-decision for a record id with no stored session is
\* answered 404 and changes nothing; for a record id with a stored session
\* it is answered status "Completed" and, for proceed true and false alike,
\* the session is gone from the store and its browser is quit when the
\* request completes.
C4_Decision ==
    [][ DecisionArrives =>
        LET record_id == lastReq'.record_id IN
        IF record_id \notin DOMAIN sessions
        THEN /\ resp'.req = reqs' /\ resp'.kind = "decision" /\ resp'.status = 404
             /\ UNCHANGED <<sessions, autos, numAutos, awaiting, timeouts>>
        ELSE /\ resp'.req = reqs' /\ resp'.kind = "decision" /\ resp'.status = 200
             /\ resp'.body.status = "Completed"
             /\ record_id \notin DOMAIN sessions'
             /\ autos'[sessions[record_id]].driver = "quit" ]_vars

C4_Witness ==
    /\ lastReq.kind = "decision" /\ ~lastReq.proceed
    /\ resp.req = reqs /\ resp.kind = "decision" /\ resp.status = 200
    /\ lastEvict.by = "decision" /\ lastEvict.popped # 0
    /\ autos[lastEvict.popped].driver = "quit"
    /\ lastReq.record_id \notin DOMAIN sessions

\* C5: when run_automation reports success=false in a /run-irs-ein
\* request, the answer is 500, the browser of that run (if one was
\* started) has been quit once when the answer is given, and the run
\* stores no session, suspends nothing and schedules no timeout task.
C5_FailedRunCleansUp ==
    [][ (numAutos' = numAutos + 1 /\ ~lastRun'.success)
        => /\ resp'.req = reqs' /\ resp'.kind = "run" /\ resp'.status = 500
           /\ autos'[numAutos'].driver # "live"
           /\ lastRun'.driver = "live" =>
                 autos'[numAutos'] = [driver |-> "quit", quits |-> 1]
           /\ UNCHANGED <<sessions, awaiting, timeouts>> ]_vars

C5_Witness ==
    /\ lastRun.auto # 0 /\ ~lastRun.success /\ lastRun.driver = "live"
    /\ lastRun.trace = << "init_browser", "get" >>
    /\ autos[lastRun.auto] = [driver |-> "quit", quits |-> 1]
    /\ resp.req = lastRun.req /\ resp.status = 500
    /\ ~Stored(lastRun.auto)

\* C6: when the automation fails with exception message m, the detail of
\* the 500 response of /run-irs-ein is exactly m.
C6_DetailIsMessage ==
    (/\ lastRun.auto # 0 /\ ~lastRun.success
     /\ resp.kind = "run" /\ resp.req = lastRun.req /\ resp.status = 500)
    => resp.detail = lastRun.message

\* C7: eviction is idempotent under the race of the timeout task and an
\* explicit decision: an eviction (by either) of a record id that is in the
\* store pops the session and quits its live browser, an eviction of a
\* record id that is not in the store changes neither the store nor any
\* browser, and no browser is ever quit twice.
C7_EvictionIdempotent ==
    [][ /\ \A a \in AutoIds : autos'[a].quits <= 1
        /\ (DecisionArrives \/ TimeoutWakes) =>
            LET record_id == IF TimeoutWakes THEN Head(timeouts).record_id
                             ELSE lastReq'.record_id
            IN  IF record_id \in DOMAIN sessions
                THEN /\ autos[sessions[record_id]] = [driver |-> "live", quits |-> 0]
                     /\ sessions' = Without(sessions, record_id)
                     /\ autos' = [autos EXCEPT ![sessions[record_id]] =
                                     [driver |-> "quit", quits |-> 1]]
                ELSE UNCHANGED <<sessions, autos>> ]_vars

\* the decision evicted the only session, then that session's timeout
\* task woke up and found nothing
C7_Witness ==
    /\ numAutos = 1 /\ autos[1] = [driver |-> "quit", quits |-> 1]
    /\ resp.kind = "decision" /\ resp.status = 200
    /\ lastEvict = [by |-> "timeout", record_id |-> TEMP_RECORD_ID,
                    popped |-> 0, task |-> 1]

(***************************************************************************)
(* Properties of determine_llc_members                                     *)
(***************************************************************************)
\* the keys of a document, at any depth
RECURSIVE KeysOf(_)
KeysOf(doc) ==
    IF doc.t = "dict"
    THEN UNION {{doc.items[i].k} \cup KeysOf(doc.items[i].v) : i \in 1..Len(doc.items)}
    ELSE IF doc.t = "list"
    THEN UNION {KeysOf(doc.items[i]) : i \in 1..Len(doc.items)}
    ELSE {}

IsMark(c) == c \in {MARK, MARK_TITLE, MARK_UPPER}
IsNumber(w) == w # << >> /\ \A i \in 1..Len(w) : w[i] \in AllDigits

\* the numbers <n> of the occurrences of "responsible party-<n>" in key k:
\* the digits that follow an occurrence of the marker, up to the next atom
\* that is no digit
NumbersIn(k) ==
    {DecimalValue(SubSeq(k, i + 1, j)) : <<i, j>> \in
        {p \in (1..Len(k)) \X (1..Len(k)) :
            /\ IsMark(k[p[1]]) /\ p[1] < p[2]
            /\ \A x \in (p[1] + 1)..p[2] : k[x] \in AllDigits
            /\ p[2] < Len(k) => k[p[2] + 1] \notin AllDigits}}

\* the keys that contain the marker, in any letter case
MarkedKeys(doc) == {k \in KeysOf(doc) : \E i \in 1..Len(k) : IsMark(k[i])}

\* the first whitespace-delimited word after the last marker of key k
WordAfterMark(k) ==
    LET m == CHOOSE i \in 1..Len(k) :
                 IsMark(k[i]) /\ \A j \in 1..Len(k) : IsMark(k[j]) => j <= i
        starts == {b \in (m + 1)..Len(k) : k[b] # " "}
    IN  IF starts = {} THEN << >>
        ELSE LET b == CHOOSE x \in starts : \A y \in starts : x <= y
                 ends == {e \in b..Len(k) : \A x \in b..e : k[x] # " "}
                 e == CHOOSE x \in ends : \A y \in ends : y <= x
             IN  SubSeq(k, b, e)

LlcApplied == fn.name = "determine_llc_members" /\ fn.done

\* C8 as claimed: for every document with at least one key matching
\* "responsible party-<n>" (any case, any depth) determine_llc_members
\* returns the numeric maximum of all <n>, regardless of the other keys;
\* without such a key it returns 2.
C8_MaxOfAllParties ==
    LlcApplied =>
        LET N == UNION {NumbersIn(k) : k \in KeysOf(fn.arg)}
        IN  fn.out = IF N = {} THEN 2 ELSE SetMax(N)

\* C8 as amended: when the document has a key containing the marker and in
\* every such key the first whitespace-delimited word after the last marker
\* is a decimal number, determine_llc_members returns the numeric maximum
\* of these numbers (10 beats 9); in every other case (no such key, empty
\* or missing document, a marked key with no word or a non-numeric word)
\* it returns 2.
C8_MaxOfWellFormedParties ==
    LlcApplied =>
        LET M == MarkedKeys(fn.arg)
        IN  fn.out = IF M # {} /\ \A k \in M : IsNumber(WordAfterMark(k))
                     THEN SetMax({DecimalValue(WordAfterMark(k)) : k \in M})
                     ELSE 2

C8_Witness ==
    /\ LlcApplied
    /\ fn.arg = Document(<< MARK, "9" >>, << MARK_UPPER, "1", "0" >>, 1)
    /\ fn.out = 10

(***************************************************************************)
(* Properties of run_automation                                            *)
(***************************************************************************)
WizardRan == fn.name = "run_automation" /\ fn.done

\* C9: the multi-member radio selection and its extra Continue click are
\* performed if and only if the computed member count is exactly 2, right
\* after the Continue of the member-count/state page and right before the
\* remaining steps and the capture; a run that fails before the wizard's
\* pages performs neither; a record with entity_type "LLC" and no
\* json_summary has member count 2 and takes the branch.
C9_MultiMemberBranch ==
    WizardRan =>
        LET t == fn.out.trace
            P == {i \in 1..Len(t) : t[i] = "select_radio radio_n"}
            S == {i \in 1..Len(t) : t[i] = "select_dropdown state"}
        IN  /\ fn.out.success => (P # {} <=> fn.out.llc_members = 2)
            /\ ~fn.out.success => P = {}
            /\ \A p \in P :
                /\ P = {p}
                /\ p - 2 \in S /\ t[p - 1] = CONTINUE
                /\ Len(t) = p + 3
                /\ t[p + 1] = CONTINUE
                /\ t[p + 2] = "_fill_remaining_steps"
                /\ t[p + 3] = "capture_page_as_png"
            /\ (fn.out.success /\ P = {}) =>
                  \A i \in S : /\ Len(t) = i + 3
                               /\ t[i + 1] = CONTINUE
                               /\ t[i + 2] = "_fill_remaining_steps"
            /\ (fn.out.success /\ fn.data.entity_type = "LLC"
                    /\ fn.data.json_summary = JsonNone)
                  => fn.out.llc_members = 2 /\ P # {}

C9_Witness ==
    /\ WizardRan /\ fn.out.success
    /\ fn.data.entity_type = "LLC" /\ fn.data.json_summary = JsonNone
    /\ fn.out.llc_members = 2
    /\ fn.out.trace[10] = "select_radio radio_n"

\* C10: run_automation lets no exception escape: when a call of the run
\* raises (browser start, navigation) it returns (False, message, None,
\* None) with the exception's message, and it returns success=True only
\* when no call raised.
C10_NoExceptionEscapes ==
    WizardRan =>
        /\ ~fn.out.raised
        /\ fn.env.fail # "none" =>
              << fn.out.success, fn.out.message, fn.out.png_path, fn.out.png_url >>
                = << FALSE, fn.env.msg, NoneStr, NoneStr >>
        /\ fn.out.success => fn.env.fail = "none"

C10_Witness ==
    /\ WizardRan /\ fn.env.fail = "get" /\ fn.env.msg # ""
    /\ ~fn.out.success /\ fn.out.message = fn.env.msg /\ ~fn.out.raised

\* C18: a field-level failure never aborts the wizard: whatever set of
\* fill, click, select_radio and select_dropdown calls find their element
\* missing (and return False without raising), run_automation makes the
\* same calls in the same order as the run in which none fails, ends with
\* the capture and returns success=True.
C18_FieldFailuresDoNotAbort ==
    (WizardRan /\ fn.env.fail = "none") =>
        LET clean == run_automation(fn.data, [fn.env EXCEPT !.broken = {}])
        IN  /\ fn.out.success
            /\ fn.out.trace = clean.trace
            /\ fn.out.trace[Len(fn.out.trace)] = "capture_page_as_png"
            /\ \A i \in DOMAIN fn.out.results :
                  fn.out.results[i] = IF i \in fn.env.broken THEN False ELSE True

C18_Witness ==
    /\ WizardRan /\ fn.out.success
    /\ fn.env.broken = {1, 5, 8}
    /\ fn.out.llc_members = 2
    /\ fn.out.results[8] = False /\ fn.out.results[9] = True
    /\ fn.out.trace[13] = "capture_page_as_png"

(***************************************************************************)
(* Properties of the webhook notification                                  *)
(***************************************************************************)
\* a step that sends the response to a /run-irs-ein request whose
\* automation ran: the failed run answers in the step that ran it, the
\* successful one when its notification has returned
FailedRunAnswered == RunArrives /\ numAutos' = numAutos + 1 /\ resp'.req = reqs'
RunAnswered(w) == w \in awaiting /\ w \notin awaiting'

\* C11: when the response to a /run-irs-ein request whose automation ran is
\* sent, whether the run succeeded or failed, a webhook carrying record_id,
\* status, message and png_url of that run has been posted for it; and
\* however the POST ended (200, another status, an exception) the response
\* of the request is the same 200 "Completed" body.
C11_WebhookAfterEachRun ==
    [][ /\ FailedRunAnswered =>
              /\ lastHook'.req = reqs'
              /\ lastHook'.payload.record_id = lastRun'.data.record_id
              /\ lastHook'.payload.message = lastRun'.message
              /\ lastHook'.payload.png_url = lastRun'.png_url
        /\ \A w \in awaiting : RunAnswered(w) =>
              /\ lastHook'.req = w.req
              /\ lastHook'.payload = [record_id |-> w.record_id, status |-> "Completed",
                                      message |-> w.message, png_url |-> w.png_url]
              /\ resp' = [req |-> w.req, kind |-> "run", status |-> 200,
                          body |-> [status |-> "Completed", record_id |-> w.record_id,
                                    png_url |-> w.png_url]] ]_vars

(***************************************************************************)
(* Properties of the capture directory                                     *)
(***************************************************************************)
\* a step in which a run saved its capture
CaptureSaved == RunArrives /\ numAutos' = numAutos + 1 /\ lastRun'.saved # NoneStr

\* C12: captures are append-only: every capture a run saves goes to a file
\* name that no earlier capture used, so the files already in the directory
\* stay as they were, also for two runs of the same record id within the
\* same second.
C12_CapturesAppendOnly ==
    [][ CaptureSaved =>
            /\ lastRun'.saved \notin listdir(files)
            /\ files \subseteq files' ]_vars

DownloadArrives == reqs' = reqs + 1 /\ lastReq'.kind = "download"
\* the names of the captures that runs for record_id saved
CapturesOf(dir, record_id) == {f.name : f \in {g \in dir : g.by = record_id}}

\* C13: GET /download-screenshot/{record_id} answers 404 when no capture
\* was saved for that record id, and otherwise returns a capture saved for
\* that record id, the one whose name is last in lexicographic order; it
\* never returns the capture of another record id, such as one whose id
\* begins with the requested id followed by "_".
C13_DownloadOwnLatest ==
    [][ DownloadArrives =>
            LET own == CapturesOf(files, lastReq'.record_id)
            IN  IF own = {}
                THEN resp'.status = 404
                ELSE /\ resp'.status = 200
                     /\ \E f \in own :
                           /\ resp'.file = << STATIC_DIR, "/" >> \o f
                           /\ \A g \in own : StrLeq(g, f) ]_vars

(***************************************************************************)
(* Properties of normalize_state                                           *)
(***************************************************************************)
StateApplied == fn.name = "normalize_state" /\ fn.done
Blank(s) == \A i \in DOMAIN s : IsSpace(s[i])
\* s without the white space before its first and after its last other character
Trimmed(s) ==
    IF Blank(s) THEN << >>
    ELSE LET inner == {i \in DOMAIN s : ~IsSpace(s[i])}
             first == CHOOSE i \in inner : \A j \in inner : i <= j
             last == CHOOSE i \in inner : \A j \in inner : j <= i
         IN  SubSeq(s, first, last)
StateNames == {p[1] : p \in STATE_MAPPING}

\* C14: for every input, normalize_state returns the table's code when the
\* upper-cased, stripped input is a name of the table; that upper-cased,
\* stripped input itself when it is not in the table and has exactly two
\* characters; and "TX" for every other input, the missing, the empty and
\* the white-space-only input included.
C14_NormalizeState ==
    StateApplied =>
        LET clean == Trimmed(Upper(fn.arg))
        IN  IF fn.arg = NoneStr \/ Blank(fn.arg) THEN fn.out = << "T", "X" >>
            ELSE IF clean \in StateNames THEN << clean, fn.out >> \in STATE_MAPPING
            ELSE IF Len(clean) = 2 THEN fn.out = clean
            ELSE fn.out = << "T", "X" >>

C14_Witness ==
    /\ StateApplied
    /\ fn.arg = << " ", "n", "e", "w", " ", "y", "o", "r", "k", "\t" >>
    /\ fn.out = << "N", "Y" >>

(***************************************************************************)
(* Properties of format_phone                                              *)
(***************************************************************************)
PhoneApplied == fn.name = "format_phone" /\ fn.done
\* the digits of s, in order
RECURSIVE DigitsOf(_)
DigitsOf(s) ==
    IF s = << >> THEN << >>
    ELSE (IF IsDecimalDigit(Head(s)) THEN << Head(s) >> ELSE << >>) \o DigitsOf(Tail(s))

\* C15: when the input without its non-digit characters has exactly 10
\* digits, format_phone returns three parts of 3, 3 and 4 characters whose
\* concatenation is these digits; for every other input (missing, empty,
\* fewer or more than 10 digits) it returns ('281', '217', '3123').
C15_FormatPhone ==
    PhoneApplied =>
        LET digits == IF fn.arg = NoneStr THEN << >> ELSE DigitsOf(fn.arg)
        IN  IF Len(digits) = 10
            THEN /\ << Len(fn.out[1]), Len(fn.out[2]), Len(fn.out[3]) >> = << 3, 3, 4 >>
                 /\ fn.out[1] \o fn.out[2] \o fn.out[3] = digits
            ELSE fn.out = << << "2", "8", "1" >>, << "2", "1", "7" >>,
                             << "3", "1", "2", "3" >> >>

C15_Witness ==
    /\ PhoneApplied
    /\ fn.arg = << "(", "1", "2", "3", "(", "4", "5", "6", "(", "7", "8", "9", "0" >>
    /\ fn.out = << << "1", "2", "3" >>, << "4", "5", "6" >>, << "7", "8", "9", "0" >> >>

(***************************************************************************)
(* Properties of parse_formation_date                                      *)
(***************************************************************************)
DateApplied == fn.name = "parse_formation_date" /\ fn.done
\* the strings that are a date of the calendar written in one of the three
\* formats, every month and day in one of the forms strptime reads
ParseableStrings ==
    {Written(date, style) :
        date \in {d \in [year : DateYears, month : 1..12, day : 1..31] :
                    IsDate(d.year, d.month, d.day)},
        style \in {st \in Styles : \E three \in ThreeStyles :
                                      st.order = three.order /\ st.sep = three.sep}}

\* C16: for every date of the calendar, parse_formation_date returns the
\* date's own (month, year) for each of its writings YYYY-MM-DD,
\* MM/DD/YYYY and YYYY/MM/DD, so the same pair for all three; for a
\* missing string and for a string that is no writing of a date of the
\* calendar in these formats it returns (6, 2024).
C16_ParseFormationDate ==
    DateApplied =>
        /\ ("date" \in DOMAIN fn.in /\ fn.in.date \in CalendarDates
                /\ fn.in.style \in ThreeStyles)
              => fn.out = << fn.in.date.month, fn.in.date.year >>
        /\ (Falsy(fn.in.arg) \/ Trimmed(fn.in.arg) \notin ParseableStrings)
              => fn.out = << 6, 2024 >>

C16_Witness ==
    /\ DateApplied
    /\ fn.in.arg = << "0", "2", "/", "2", "9", "/", "2", "0", "0", "0" >>
    /\ fn.out = << 2, 2000 >>

(***************************************************************************)
(* Properties of the timeout tasks                                         *)
(***************************************************************************)
\* C17: a timeout task evicts no session that was stored after the task
\* was created: such a session's own BROWSER_TIMEOUT has not elapsed when
\* the task of an earlier run of the same record id wakes, so until its own
\* timeout only a decision removes it.
C17_NoEarlyEviction ==
    [][ TimeoutWakes => lastEvict'.popped <= Head(timeouts).seen ]_vars

(***************************************************************************)
(* Properties of the field primitives                                      *)
(***************************************************************************)
ClickApplied == fn.name = "click_button" /\ fn.done
\* the attempts of a call are those that make a click()-bound wait
Attempts(calls) == Cardinality({i \in DOMAIN calls : calls[i] = "wait"})

\* C19: click_button(locator, desc, retries) makes at most retries+1
\* attempts and lets no exception through; it returns True at the first
\* attempt that succeeds and makes no further attempt; it returns False
\* when all retries+1 attempts fail; and for every retries value what it
\* returns is True or False.
C19_ClickButton ==
    ClickApplied =>
        LET tried == Attempts(fn.out.calls)
            succeed == {k \in 1..fn.retries + 1 : fn.outcomes[k] = "ok"}
            most == IF fn.retries + 1 > 0 THEN fn.retries + 1 ELSE 0
        IN  /\ ~fn.out.raised
            /\ tried <= most
            /\ succeed # {} =>
                  /\ fn.out.value = True
                  /\ \A k \in succeed : tried <= k
                  /\ tried \in succeed
            /\ succeed = {} => fn.out.value = False /\ tried = most
            /\ fn.out.value \in {True, False}


FillApplied == fn.name = "fill_field" /\ fn.done
\* call a is made, and call b after it
InOrder(calls, a, b) ==
    \E i, j \in DOMAIN calls : i < j /\ calls[i] = a /\ calls[j] = b

\* C20: fill_field with a missing, empty or white-space-only value makes
\* no browser call (no wait, scroll, clear or key input), leaves the field
\* as it was and returns False; with another value it returns True only
\* after clear() and send_keys() were called, the field then holding the
\* value; and when the element is not clickable within the timeout it
\* returns False.  No exception leaves it.
C20_FillField ==
    FillApplied =>
        /\ ~fn.out.raised
        /\ (fn.value = NoneStr \/ Blank(fn.value)) =>
              /\ fn.out.calls = << >>
              /\ fn.out.field = fn.before
              /\ fn.out.value = False
        /\ fn.out.value = True =>
              /\ InOrder(fn.out.calls, "clear", "send_keys")
              /\ fn.out.field = fn.value
        /\ fn.el = "wait" => fn.out.value = False

C20_Witness ==
    /\ FillApplied
    /\ fn.value = << " ", "\t" >> /\ fn.before = << "7" >> /\ fn.el = "ok"
    /\ fn.out.value = False /\ fn.out.calls = << >> /\ fn.out.field = << "7" >>


(***************************************************************************)
(* Properties of a failed capture                                          *)
(***************************************************************************)
\* a /run-irs-ein request runs the wizard, no call of the wizard raises and
\* the capture of the final page fails
CaptureFails ==
    /\ RunArrives /\ numAutos' = numAutos + 1
    /\ lastRun'.env.fail = "none" /\ ~lastRun'.env.capture

\* C21: a failed page capture is degraded, not fatal.  When
\* capture_page_as_png fails, run_automation returns, without raising,
\* success=True with the capture path and URL None; the /run-irs-ein
\* request stores the session of the run, leaves its browser live and goes
\* on to the notification; and when the notification has returned it
\* answers 200 with status "Completed" and png_url null.
C21_FailedCaptureDegraded ==
    [][ /\ CaptureFails =>
            /\ lastRun'.success /\ ~lastRun'.raised
            /\ lastRun'.png_path = NoneStr /\ lastRun'.png_url = NoneStr
            /\ lastRun'.data.record_id \in DOMAIN sessions'
            /\ sessions'[lastRun'.data.record_id] = numAutos'
            /\ autos'[numAutos'].driver = "live"
            /\ \E w \in awaiting' \ awaiting :
                  w.req = reqs' /\ w.auto = numAutos' /\ w.png_url = NoneStr
        /\ \A w \in awaiting :
              (RunAnswered(w) /\ w.png_url = NoneStr) =>
                  /\ resp'.req = w.req /\ resp'.kind = "run" /\ resp'.status = 200
                  /\ resp'.body.status = "Completed"
                  /\ resp'.body.record_id = w.record_id
                  /\ resp'.body.png_url = NoneStr ]_vars

C21_Witness ==
    /\ lastRun.auto # 0 /\ lastRun.req = resp.req
    /\ lastRun.env.fail = "none" /\ ~lastRun.env.capture
    /\ lastRun.success
    /\ resp.kind = "run" /\ resp.status = 200
    /\ resp.body.status = "Completed" /\ resp.body.png_url = NoneStr
    /\ Stored(lastRun.auto)


(***************************************************************************)
(* Properties of concurrent decisions                                      *)
(***************************************************************************)
\* automation a is a session of the store sess
StoredIn(sess, a) == \E r \in DOMAIN sess : sess[r] = a

\* C22: each stored session accepts at most one decision.  The handler of
\* /submit-decision has no yield point between get_session and
\* remove_session, so concurrent requests for one record id are handled one
\* after the other: the request that finds the session is answered
\* "Completed" and takes that very session out of the store, a request that
\* finds none is answered 404 and leaves the store alone, and an automation
\* that is out of the store is never put back, so no later request finds
\* it again.
C22_OneDecisionPerSession ==
    [][ /\ DecisionArrives =>
            LET record_id == lastReq'.record_id IN
            /\ resp'.req = reqs' /\ resp'.kind = "decision"
            /\ IF record_id \in DOMAIN sessions
               THEN /\ resp'.status = 200 /\ resp'.body.status = "Completed"
                    /\ lastEvict'.by = "decision"
                    /\ lastEvict'.popped = sessions[record_id]
                    /\ ~StoredIn(sessions', sessions[record_id])
               ELSE /\ resp'.status = 404
                    /\ sessions' = sessions
        /\ \A a \in 1..numAutos :
              ~StoredIn(sessions, a) => ~StoredIn(sessions', a) ]_vars

\* one session was ever stored; a decision found it, and the decision
\* for the same record id that came after it is answered 404
C22_Witness ==
    /\ numAutos = 1 /\ lastRun.success
    /\ lastEvict.by = "decision" /\ lastEvict.popped = 1
    /\ lastReq.kind = "decision" /\ lastReq.record_id = lastEvict.record_id
    /\ resp.req = reqs /\ resp.kind = "decision" /\ resp.status = 404
    /\ ~Stored(1) /\ autos[1].quits = 1

====
